---- MODULE Spec2Model ----
(***************************************************************************)
(* State-machine model of trezor/ui/__init__.py: the backlight animation   *)
(* generators (alert, backlight_slide) and the blocking                    *)
(* backlight_slide_sync, the Widget iteration protocol, Control.dispatch,  *)
(* the `layout` and `layout_without_fade` decorators, the two-task Layout, *)
(* click(), rotate() and grid().                                           *)
(*                                                                         *)
(* A generator is a record with a position `pc`; one action is one step of *)
(* the cooperative scheduler: it resumes one task and runs it up to its    *)
(* next suspension point (or to its end).                                  *)
(***************************************************************************)
EXTENDS Integers, Sequences, FiniteSets, TLC

VARIABLES
    backlight,  \* display.backlight(): the level the display currently has
    bl0,        \* the level the display had when the run began
    blog,       \* backlight writes and sleeps, in program order
    trace,      \* renders, handler calls, clears, notifications, in order
    sl,         \* a backlight_slide generator run on its own
    alrt,       \* an alert generator
    wid,        \* a Widget being iterated
    repaint,    \* Control.repaint
    inner,      \* the coroutine made by the `layout` decorator
    down,       \* its awaited backlight_slide(BACKLIGHT_DIM)
    up,         \* its scheduled backlight_slide(BACKLIGHT_NORMAL)
    wl,         \* the wrapped layout (the object fn returns)
    lay,        \* Layout.__iter__
    inp,        \* Layout.handle_input
    call,       \* a blocking call (rotate, grid, backlight_slide_sync)
    clk         \* a click() generator

vars == << backlight, bl0, blog, trace, sl, alrt, wid, repaint,
           inner, down, up, wl, lay, inp, call, clk >>

(***************************************************************************)
(* Bounds of the model.                                                    *)
(***************************************************************************)
MaxLevel == 6      \* levels 0..MaxLevel for a slide run on its own
MaxStep == 3       \* steps 1..MaxStep for a slide run on its own
MaxCount == 3      \* alert(count) for count in 0..MaxCount
MaxTouch == 2      \* touch events delivered in one run
MaxRender == 2     \* resumptions of the wrapped layout in one run
MaxWidgetTouch == 3  \* touch events fed to a Widget
MaxDispatch == 2   \* calls of Control.dispatch on its own

(***************************************************************************)
(* Program constants.                                                      *)
(***************************************************************************)
RENDER == -1234
REPAINT == -1235
SHORT_SLEEP == 20000
LONG_SLEEP == 80000
DEFAULT_DELAY == 35000
DEFAULT_STEP == 20
\* trezor.ui.style and trezor.io, imported by the module
BACKLIGHT_DIM == 5
BACKLIGHT_NORMAL == 60
BACKLIGHT_MAX == 255
TOUCH_START == 1
TOUCH_MOVE == 2
TOUCH_END == 4

Values == {42, 7}                 \* values a Result or a return can carry
None == [t |-> "none", v |-> 0]   \* Python's None
Val(v) == [t |-> "val", v |-> v]

(***************************************************************************)
(* Log entries.                                                            *)
(***************************************************************************)
BlWrite(who, v) == [w |-> who, k |-> "bl", v |-> v]
Sleep(who, d) == [w |-> who, k |-> "sleep", v |-> d]

Writes(log, who) == SelectSeq(log, LAMBDA e : e.w = who /\ e.k = "bl")
Sleeps(log, who) == SelectSeq(log, LAMBDA e : e.w = who /\ e.k = "sleep")

(***************************************************************************)
(* backlight_slide(val, delay, step): a generator.  Its body starts at the *)
(* first resumption, where it reads the backlight; range(current, val,     *)
(* +-step) is walked one element per resumption.                           *)
(***************************************************************************)
NoGen ==
    [pc |-> "none", val |-> 0, delay |-> 0, step |-> 0, i |-> 0, stp |-> 0,
     q |-> FALSE]

NewSlide(val, delay, step) ==
    [pc |-> "new", val |-> val, delay |-> delay, step |-> step, i |-> 0, stp |-> 0,
     q |-> FALSE]

\* -step if current > val else step
SlideSign(current, val, step) == IF current > val THEN -step ELSE step

InRangeIncl(i, stop, stp) ==
    IF stp > 0 THEN i <= stop ELSE IF stp < 0 THEN i >= stop ELSE FALSE

\* whether i is an element of range(_, stop, stp): the stop is exclusive
InRange(i, stop, stp) ==
    IF stp > 0 THEN i < stop ELSE IF stp < 0 THEN i > stop ELSE FALSE

\* a slide that ramps from zero instead of from the level it reads
SlideNextFromZero(g, bl) ==
    IF g.pc = "new"
    THEN [i |-> 0, stp |-> SlideSign(0, g.val, g.step)]
    ELSE [i |-> g.i + g.stp, stp |-> g.stp]

\* the loop variable and the stride at this resumption
SlideNext(g, bl) ==
    IF g.pc = "new"
    THEN [i |-> bl, stp |-> SlideSign(bl, g.val, g.step)]
    ELSE [i |-> g.i + g.stp, stp |-> g.stp]

\* one resumption of a slide generator: the next write and sleep, or the end
SlideResume(g, who, bl, log) ==
    LET n == SlideNext(g, bl) IN
    IF InRange(n.i, g.val, n.stp)
    THEN [g |-> [g EXCEPT !.pc = "sleep", !.i = n.i, !.stp = n.stp],
          bl |-> n.i,
          log |-> log \o << BlWrite(who, n.i), Sleep(who, g.delay) >>]
    ELSE [g |-> [g EXCEPT !.pc = "done", !.i = n.i, !.stp = n.stp],
          bl |-> bl,
          log |-> log]

(***************************************************************************)
(* alert(count): a generator.                                              *)
(***************************************************************************)
NoAlert == [pc |-> "none", count |-> 0, i |-> 0, current |-> 0]

NewAlert(count) == [pc |-> "new", count |-> count, i |-> 0, current |-> 0]

AlertResumeNoRestore(a, bl, log) ==
    LET cur == IF a.pc = "new" THEN bl ELSE a.current IN
    IF a.i < a.count * 2
    THEN IF a.i % 2 = 0
         THEN [a |-> [a EXCEPT !.pc = "sleep", !.i = a.i + 1, !.current = cur],
               bl |-> BACKLIGHT_MAX,
               log |-> log \o << BlWrite("alert", BACKLIGHT_MAX),
                                 Sleep("alert", SHORT_SLEEP) >>]
         ELSE [a |-> [a EXCEPT !.pc = "sleep", !.i = a.i + 1, !.current = cur],
               bl |-> BACKLIGHT_NORMAL,
               log |-> log \o << BlWrite("alert", BACKLIGHT_NORMAL),
                                 Sleep("alert", LONG_SLEEP) >>]
    ELSE [a |-> [a EXCEPT !.pc = "done", !.current = cur],
          bl |-> bl,
          log |-> log]

\* one resumption of alert: the next write and sleep, or the restoring write
AlertResume(a, bl, log) ==
    LET cur == IF a.pc = "new" THEN bl ELSE a.current IN
    IF a.i < a.count * 2
    THEN IF a.i % 2 = 0
         THEN [a |-> [a EXCEPT !.pc = "sleep", !.i = a.i + 1, !.current = cur],
               bl |-> BACKLIGHT_MAX,
               log |-> log \o << BlWrite("alert", BACKLIGHT_MAX),
                                 Sleep("alert", SHORT_SLEEP) >>]
         ELSE [a |-> [a EXCEPT !.pc = "sleep", !.i = a.i + 1, !.current = cur],
               bl |-> BACKLIGHT_NORMAL,
               log |-> log \o << BlWrite("alert", BACKLIGHT_NORMAL),
                                 Sleep("alert", LONG_SLEEP) >>]
    ELSE [a |-> [a EXCEPT !.pc = "done", !.current = cur],
          bl |-> cur,
          log |-> log \o << BlWrite("alert", cur) >>]

(***************************************************************************)
(* Values of the parts a specification does not run.                       *)
(***************************************************************************)
NoWidget == [pc |-> "none", result |-> None]
NoInner ==
    [pc |-> "none", kind |-> "none", result |-> None, err |-> None,
     exit |-> "none"]
NoLayout == [pc |-> "none", kids |-> {}, got |-> None, value |-> None]
NoTask == [pc |-> "none"]

IdleLayout ==
    /\ inner = NoInner /\ down = NoGen /\ up = NoGen /\ wl = NoTask
    /\ lay = NoLayout /\ inp = NoTask
    /\ call = NoTask /\ clk = NoTask

(***************************************************************************)
(* backlight_slide run to completion on its own                            *)
(***************************************************************************)
InitSlide ==
    /\ backlight \in 0..MaxLevel
    /\ bl0 = backlight
    /\ blog = << >>
    /\ trace = << >>
    /\ \E v \in 0..MaxLevel, s \in 1..MaxStep, d \in {DEFAULT_DELAY, 1} :
          sl = NewSlide(v, d, s)
    /\ alrt = NoAlert /\ wid = NoWidget /\ repaint = "unset"
    /\ IdleLayout

\* the scheduler resumes the slide: at its start, or when its sleep is over
SlideRun ==
    /\ sl.pc \in {"new", "sleep"}
    /\ LET r == SlideResume(sl, "slide", backlight, blog) IN
          /\ sl' = r.g
          /\ backlight' = r.bl
          /\ blog' = r.log
    /\ UNCHANGED << call, clk, bl0, trace, alrt, wid, repaint, inner, down, up, wl, lay, inp >>

NextSlide == SlideRun

SpecSlide == InitSlide /\ [][NextSlide]_vars

(***************************************************************************)
(* alert run on its own, and closed at a suspension point                  *)
(***************************************************************************)
AlertLevels == {0, BACKLIGHT_DIM, BACKLIGHT_NORMAL, 100, BACKLIGHT_MAX}

InitAlert ==
    /\ backlight \in AlertLevels
    /\ bl0 = backlight
    /\ blog = << >>
    /\ trace = << >>
    /\ \E c \in 0..MaxCount : alrt = NewAlert(c)
    /\ sl = NoGen /\ wid = NoWidget /\ repaint = "unset"
    /\ IdleLayout

AlertRun ==
    /\ alrt.pc \in {"new", "sleep"}
    /\ LET r == AlertResume(alrt, backlight, blog) IN
          /\ alrt' = r.a
          /\ backlight' = r.bl
          /\ blog' = r.log
    /\ UNCHANGED << call, clk, bl0, trace, sl, wid, repaint, inner, down, up, wl, lay, inp >>

\* loop.close(task): GeneratorExit is thrown at the yield; alert has no finally
AlertClose ==
    /\ alrt.pc \in {"new", "sleep"}
    /\ alrt' = [alrt EXCEPT !.pc = "closed"]
    /\ UNCHANGED << call, clk, backlight, bl0, blog, trace, sl, wid, repaint,
                    inner, down, up, wl, lay, inp >>

NextAlert == AlertRun \/ AlertClose

SpecAlert == InitAlert /\ [][NextAlert]_vars

(***************************************************************************)
(* Claims about the animation generators                                   *)
(***************************************************************************)
Abs(a) == IF a < 0 THEN -a ELSE a
Ceil(a, b) == (a + b - 1) \div b

\* what alert(count), entered at level `entry`, writes and sleeps when it runs
\* to its end: count cycles of (MAX, short sleep, NORMAL, long sleep), then the
\* level read at entry
AlertExpected(count, entry) ==
    [k \in 1..(4 * count + 1) |->
        IF k = 4 * count + 1 THEN BlWrite("alert", entry)
        ELSE IF k % 4 = 1 THEN BlWrite("alert", BACKLIGHT_MAX)
        ELSE IF k % 4 = 2 THEN Sleep("alert", SHORT_SLEEP)
        ELSE IF k % 4 = 3 THEN BlWrite("alert", BACKLIGHT_NORMAL)
        ELSE Sleep("alert", LONG_SLEEP)]

\* C8: alert(count) run to completion suspends exactly 2*count times, strictly
\* alternating (write BACKLIGHT_MAX, sleep 20000, write BACKLIGHT_NORMAL, sleep
\* 80000), and then the backlight equals the level read at entry.
C8_AlertCycles ==
    LET E == AlertExpected(alrt.count, bl0) IN
    /\ Len(blog) <= Len(E)
    /\ \A k \in 1..Len(blog) : blog[k] = E[k]
    /\ alrt.pc = "done" =>
          /\ blog = E
          /\ Len(Sleeps(blog, "alert")) = 2 * alrt.count
          /\ backlight = bl0

C8_Witness ==
    /\ alrt.pc = "done"
    /\ alrt.count = 3
    /\ bl0 \notin {BACKLIGHT_NORMAL, BACKLIGHT_MAX}
    /\ Len(Sleeps(blog, "alert")) = 6

\* C9: alert restores the level read at entry on every exit path, also when it
\* is closed at a suspension point before all cycles are over.
C9_AlertRestoresOnClose ==
    alrt.pc \in {"done", "closed"} => backlight = bl0

\* C10: backlight_slide(v, step=s) from level c writes exactly
\* ceil(|v - c| / s) values, each followed by one sleep of `delay`: c, then
\* steps of exactly s toward v, never v itself and never past it, the last one
\* within 1..s of v; when c = v it writes nothing and never suspends.
C10_SlideSteps ==
    LET c == bl0
        v == sl.val
        s == sl.step
        W == Writes(blog, "slide")
        n == Len(W)
        dir == IF c < v THEN 1 ELSE -1
    IN  /\ Len(blog) = 2 * n
        /\ n <= Ceil(Abs(v - c), s)
        /\ \A k \in 1..n :
              /\ blog[2 * k - 1] = BlWrite("slide", c + dir * (k - 1) * s)
              /\ blog[2 * k] = Sleep("slide", sl.delay)
              /\ IF c < v THEN W[k].v < v ELSE W[k].v > v
        /\ sl.pc = "sleep" => backlight = W[n].v
        /\ sl.pc = "done" =>
              /\ n = Ceil(Abs(v - c), s)
              /\ n > 0 => Abs(v - W[n].v) \in 1..s
              /\ c = v => blog = << >>

C10_Witness ==
    /\ sl.pc = "done"
    /\ bl0 > sl.val
    /\ sl.step > 1
    /\ (bl0 - sl.val) % sl.step # 0
    /\ Len(Writes(blog, "slide")) >= 2

(***************************************************************************)
(* Widget.__iter__: render, wait for a touch, hand it to touch(), until    *)
(* touch() returns something that is not None.  touch() is the subclass's: *)
(* its return value is any value or None.                                  *)
(***************************************************************************)
TouchKinds == {TOUCH_START, TOUCH_MOVE, TOUCH_END}
Positions == {<< 1, 2 >>, << 2, 1 >>}
Returns == {None} \cup {Val(v) : v \in Values}

RenderEv == [k |-> "render"]
TouchEv(e, pos, r) == [k |-> "touch", e |-> e, pos |-> pos, r |-> r]

Count(log, kind) == Len(SelectSeq(log, LAMBDA ev : ev.k = kind))

NewWidget == [pc |-> "new", result |-> None]

\* the loop from the yield on, rendering only before the first wait
WidgetResumeRenderOnce(w, e, pos, r, tr) ==
    IF r = None
    THEN [w |-> [w EXCEPT !.pc = "waiting"],
          tr |-> tr \o << TouchEv(e, pos, r) >>]
    ELSE [w |-> [w EXCEPT !.pc = "done", !.result = r],
          tr |-> tr \o << TouchEv(e, pos, r) >>]

\* the loop from the yield on: result = self.touch(event, pos); while result
\* is None: self.render() and wait again; else return result
WidgetResume(w, e, pos, r, tr) ==
    IF r = None
    THEN [w |-> [w EXCEPT !.pc = "waiting"],
          tr |-> tr \o << TouchEv(e, pos, r), RenderEv >>]
    ELSE [w |-> [w EXCEPT !.pc = "done", !.result = r],
          tr |-> tr \o << TouchEv(e, pos, r) >>]

InitWidget ==
    /\ backlight = BACKLIGHT_NORMAL
    /\ bl0 = backlight
    /\ blog = << >>
    /\ trace = << >>
    /\ wid = NewWidget
    /\ sl = NoGen /\ alrt = NoAlert /\ repaint = "unset"
    /\ IdleLayout

\* the first resumption: result = None, self.render(), yield touch
WidgetStart ==
    /\ wid.pc = "new"
    /\ wid' = [wid EXCEPT !.pc = "waiting"]
    /\ trace' = trace \o << RenderEv >>
    /\ UNCHANGED << call, clk, backlight, bl0, blog, sl, alrt, repaint,
                    inner, down, up, wl, lay, inp >>

\* the scheduler resumes the Widget with a touch event
WidgetTouch ==
    /\ wid.pc = "waiting"
    /\ Count(trace, "touch") < MaxWidgetTouch
    /\ \E e \in TouchKinds, pos \in Positions, r \in Returns :
          LET res == WidgetResume(wid, e, pos, r, trace) IN
             /\ wid' = res.w
             /\ trace' = res.tr
    /\ UNCHANGED << call, clk, backlight, bl0, blog, sl, alrt, repaint,
                    inner, down, up, wl, lay, inp >>

NextWidget == WidgetStart \/ WidgetTouch

SpecWidget == InitWidget /\ [][NextWidget]_vars

\* C3: render() is called before the Widget first waits and again before every
\* later wait, so every touch() call directly follows a render() made after
\* the previous touch(); the first touch() that returns a non-None value ends
\* the iteration with that value, and nothing is called after it.
C3_WidgetRenderFirst ==
    LET n == Len(trace) IN
    /\ wid.pc = "new" => n = 0
    /\ wid.pc = "waiting" => n >= 1 /\ trace[n].k = "render"
    /\ n >= 1 => trace[1].k = "render"
    /\ \A k \in 1..n :
          trace[k].k = "touch" =>
             /\ k > 1 /\ trace[k - 1].k = "render"
             /\ k < n => trace[k].r = None /\ trace[k + 1].k = "render"
    /\ \A k \in 1..n :
          trace[k].k = "render" /\ k > 1 => trace[k - 1].k = "touch"
    /\ wid.pc = "done" <=> (n >= 1 /\ trace[n].k = "touch" /\ trace[n].r # None)
    /\ wid.pc = "done" => wid.result = trace[n].r

C3_Witness ==
    /\ wid.pc = "done"
    /\ Count(trace, "touch") = 3
    /\ wid.result = Val(42)

(***************************************************************************)
(* Control.dispatch(event, x, y)                                           *)
(***************************************************************************)
NoCall == [h |-> "none", args |-> << >>, rp |-> FALSE]

\* a dispatch that sends TOUCH_MOVE to the handler of TOUCH_END
DispatchMoveAsEnd(event, x, y) ==
    IF event = RENDER THEN [h |-> "on_render", args |-> << >>, rp |-> FALSE]
    ELSE IF event = TOUCH_START
    THEN [h |-> "on_touch_start", args |-> << x, y >>, rp |-> FALSE]
    ELSE IF event = TOUCH_MOVE
    THEN [h |-> "on_touch_end", args |-> << x, y >>, rp |-> FALSE]
    ELSE IF event = TOUCH_END
    THEN [h |-> "on_touch_end", args |-> << x, y >>, rp |-> FALSE]
    ELSE IF event = REPAINT THEN [h |-> "none", args |-> << >>, rp |-> TRUE]
    ELSE NoCall

\* the handler dispatch calls, with its arguments, and whether it sets repaint
Dispatch(event, x, y) ==
    IF event = RENDER THEN [h |-> "on_render", args |-> << >>, rp |-> FALSE]
    ELSE IF event = TOUCH_START
    THEN [h |-> "on_touch_start", args |-> << x, y >>, rp |-> FALSE]
    ELSE IF event = TOUCH_MOVE
    THEN [h |-> "on_touch_move", args |-> << x, y >>, rp |-> FALSE]
    ELSE IF event = TOUCH_END
    THEN [h |-> "on_touch_end", args |-> << x, y >>, rp |-> FALSE]
    ELSE IF event = REPAINT THEN [h |-> "none", args |-> << >>, rp |-> TRUE]
    ELSE NoCall

\* what a handler of a subclass does: it returns, raises Result(v), or fails
Ok == [t |-> "ok", v |-> 0]
Raised(v) == [t |-> "result", v |-> v]
Failed == [t |-> "error", v |-> 0]
Outcomes == {Ok, Failed} \cup {Raised(v) : v \in Values}

DispatchEv(e, x, y, before, after) ==
    [k |-> "dispatch", e |-> e, x |-> x, y |-> y, before |-> before, after |-> after]
CallEv(h, args, out) == [k |-> "call", h |-> h, args |-> args, out |-> out]

\* self.repaint after the dispatch
RepaintAfter(d, rp) == IF d.rp THEN "true" ELSE rp

\* the log entries of one dispatch whose handler (if any) ends with `out`
DispatchLog(e, x, y, out, rp) ==
    LET d == Dispatch(e, x, y) IN
    << DispatchEv(e, x, y, rp, RepaintAfter(d, rp)) >>
       \o (IF d.h = "none" THEN << >> ELSE << CallEv(d.h, d.args, out) >>)

\* what the dispatch ends with: the handler's outcome, or a plain return
DispatchOutcome(e, x, y, out) ==
    IF Dispatch(e, x, y).h = "none" THEN Ok ELSE out

AnyEvents == TouchKinds \cup {RENDER, REPAINT, 0, 3}

InitDispatch ==
    /\ backlight = BACKLIGHT_NORMAL
    /\ bl0 = backlight
    /\ blog = << >>
    /\ trace = << >>
    /\ repaint \in {"unset", "true", "false"}
    /\ sl = NoGen /\ alrt = NoAlert /\ wid = NoWidget
    /\ IdleLayout

DoDispatch ==
    /\ Count(trace, "dispatch") < MaxDispatch
    /\ \E e \in AnyEvents, pos \in Positions, out \in Outcomes :
          /\ trace' = trace \o DispatchLog(e, pos[1], pos[2], out, repaint)
          /\ repaint' = RepaintAfter(Dispatch(e, pos[1], pos[2]), repaint)
    /\ UNCHANGED << call, clk, backlight, bl0, blog, sl, alrt, wid,
                    inner, down, up, wl, lay, inp >>

NextDispatch == DoDispatch

SpecDispatch == InitDispatch /\ [][NextDispatch]_vars

\* the handler the claim names for an event, "none" when it names none
ClaimedHandler(e) ==
    IF e = RENDER THEN "on_render"
    ELSE IF e = TOUCH_START THEN "on_touch_start"
    ELSE IF e = TOUCH_MOVE THEN "on_touch_move"
    ELSE IF e = TOUCH_END THEN "on_touch_end"
    ELSE "none"

\* C6: dispatch calls exactly one handler for RENDER (on_render()),
\* TOUCH_START, TOUCH_MOVE and TOUCH_END (the handler of that name, with x and
\* y); REPAINT sets the repaint flag and calls no handler; any other event
\* calls no handler, raises nothing and leaves the flag as it was.
C6_DispatchRoutes ==
    LET n == Len(trace) IN
    /\ \A k \in 1..n :
          trace[k].k = "dispatch" =>
             LET ev == trace[k]
                 h == ClaimedHandler(ev.e)
                 called == k < n /\ trace[k + 1].k = "call"
             IN  /\ h # "none" =>
                       /\ called
                       /\ trace[k + 1].h = h
                       /\ trace[k + 1].args =
                             (IF ev.e = RENDER THEN << >> ELSE << ev.x, ev.y >>)
                 /\ h = "none" => ~called
                 /\ ev.after = (IF ev.e = REPAINT THEN "true" ELSE ev.before)
                 /\ k = n \/ (k = n - 1 /\ called) => repaint = ev.after
    /\ \A k \in 1..n :
          trace[k].k = "call" => k > 1 /\ trace[k - 1].k = "dispatch"
    /\ n = 0 \/ trace[1].k = "dispatch"

C6_Witness ==
    /\ Count(trace, "dispatch") = 2
    /\ Count(trace, "call") = 1
    /\ \E k \in 1..Len(trace) : trace[k].k = "dispatch" /\ trace[k].e = 3
    /\ \E k \in 1..Len(trace) :
          trace[k].k = "call" /\ trace[k].h = "on_touch_move"
             /\ trace[k].args = << 1, 2 >>

(***************************************************************************)
(* The `layout` decorator: inner() awaits backlight_slide(BACKLIGHT_DIM),  *)
(* creates the fade-up slide, calls fn, schedules the slide, clears the    *)
(* display and awaits the layout inside try/finally.                       *)
(*                                                                         *)
(* The operators below transform a record of the variables they touch, so  *)
(* that one scheduler step can run through several of them.                *)
(***************************************************************************)
Cur ==
    [bl |-> backlight, blog |-> blog, tr |-> trace, rp |-> repaint,
     inner |-> inner, down |-> down, up |-> up, wl |-> wl,
     lay |-> lay, inp |-> inp]

Set(m) ==
    /\ backlight' = m.bl
    /\ blog' = m.blog
    /\ trace' = m.tr
    /\ repaint' = m.rp
    /\ inner' = m.inner
    /\ down' = m.down
    /\ up' = m.up
    /\ wl' = m.wl
    /\ lay' = m.lay
    /\ inp' = m.inp
    /\ UNCHANGED << call, clk, bl0, sl, alrt, wid >>

FnEv == [k |-> "fn"]
ScheduleEv == [k |-> "schedule"]
ClearEv == [k |-> "clear"]
StepEv(o) == [k |-> "step", out |-> o]
CloseSlideEv == [k |-> "close_slide"]
NotifyCloseEv == [k |-> "onlayoutclose"]
DeliverEv(e, x, y) == [k |-> "deliver", e |-> e, x |-> x, y |-> y]
ResolveEv(v) == [k |-> "resolve", v |-> v]

Returned(v) == [t |-> "return", v |-> v]
NameErr == [t |-> "name_error", v |-> 0]

\* how one step of the wrapped layout can end.  Layout.handle_rendering
\* dispatches RENDER and sleeps, or ends with what on_render raises; any other
\* layout suspends again, returns a value or fails.
WrappedOutcomes(kind) ==
    IF kind = "render" THEN Outcomes
    ELSE {Ok, Failed} \cup {Returned(v) : v \in Values}

\* whether the call fn(*args, **kwargs) succeeds: calling a generator function
\* (handle_rendering) runs none of its body
FnOk(kind) == IF kind = "render" THEN {TRUE} ELSE {TRUE, FALSE}

\* loop.close(task): a task that has ended stays as it is
CloseGen(g) ==
    IF g.pc \in {"new", "sleep"} THEN [g EXCEPT !.pc = "closed", !.q = FALSE]
    ELSE g

Runnable(g) == g.q /\ g.pc \in {"new", "sleep"}

\* a finally block that only notifies
FinallyKeepSlide(m) ==
    IF m.wl.pc = "none"
    THEN [m EXCEPT !.inner.pc = "raised", !.inner.err = NameErr,
                   !.inner.result = None]
    ELSE [m EXCEPT !.tr = @ \o << NotifyCloseEv >>]

\* finally: loop.close(slide); workflow.onlayoutclose(layout).  When fn itself
\* failed, `layout` was never bound and the second line raises
Finally(m) ==
    LET m1 == [m EXCEPT !.up = CloseGen(@), !.tr = @ \o << CloseSlideEv >>] IN
    IF m1.wl.pc = "none"
    THEN [m1 EXCEPT !.inner.pc = "raised", !.inner.err = NameErr,
                    !.inner.result = None]
    ELSE [m1 EXCEPT !.tr = @ \o << NotifyCloseEv >>]

\* a wrapped layout whose step, once it suspends, is never resumed again
ResumeLayoutOnce(m, o) ==
    LET log == IF m.inner.kind = "render"
               THEN DispatchLog(RENDER, 0, 0, o, m.rp)
               ELSE << StepEv(o) >>
        m1 == [m EXCEPT !.tr = @ \o log]
    IN  IF o.t = "ok"
        THEN [m1 EXCEPT !.inner.pc = "parked", !.wl.pc = "susp"]
        ELSE IF o.t = "return"
        THEN Finally([m1 EXCEPT !.wl.pc = "returned", !.inner.pc = "returned",
                                !.inner.result = Val(o.v),
                                !.inner.exit = "return"])
        ELSE Finally([m1 EXCEPT !.wl.pc = "raised", !.inner.pc = "raised",
                                !.inner.err = o, !.inner.exit = "raise"])

\* return await layout: the wrapped layout is resumed and its step ends with o
ResumeLayout(m, o) ==
    LET log == IF m.inner.kind = "render"
               THEN DispatchLog(RENDER, 0, 0, o, m.rp)
               ELSE << StepEv(o) >>
        m1 == [m EXCEPT !.tr = @ \o log]
    IN  IF o.t = "ok"
        THEN [m1 EXCEPT !.inner.pc = "layout", !.wl.pc = "susp"]
        ELSE IF o.t = "return"
        THEN Finally([m1 EXCEPT !.wl.pc = "returned", !.inner.pc = "returned",
                                !.inner.result = Val(o.v),
                                !.inner.exit = "return"])
        ELSE Finally([m1 EXCEPT !.wl.pc = "raised", !.inner.pc = "raised",
                                !.inner.err = o, !.inner.exit = "raise"])

\* the body that clears the display only after the layout's first step
EnterTryClearLate(m, fnok, o) ==
    LET m1 == [m EXCEPT !.up = NewSlide(BACKLIGHT_NORMAL, DEFAULT_DELAY,
                                         DEFAULT_STEP)]
    IN  IF ~fnok
        THEN Finally([m1 EXCEPT !.inner.pc = "raised", !.inner.err = Failed,
                                !.inner.exit = "fn_error"])
        ELSE LET m2 == ResumeLayout(
                          [m1 EXCEPT !.wl.pc = "new", !.up.q = TRUE,
                                     !.tr = @ \o << FnEv, ScheduleEv >>], o)
             IN  [m2 EXCEPT !.tr = @ \o << ClearEv >>]

\* lines 123-129: slide = backlight_slide(BACKLIGHT_NORMAL); layout = fn(...);
\* loop.schedule(slide); display.clear(); return await layout
EnterTry(m, fnok, o) ==
    LET m1 == [m EXCEPT !.up = NewSlide(BACKLIGHT_NORMAL, DEFAULT_DELAY,
                                         DEFAULT_STEP)]
    IN  IF ~fnok
        THEN Finally([m1 EXCEPT !.inner.pc = "raised", !.inner.err = Failed,
                                !.inner.exit = "fn_error"])
        ELSE ResumeLayout(
                [m1 EXCEPT !.wl.pc = "new", !.up.q = TRUE,
                           !.tr = @ \o << FnEv, ScheduleEv, ClearEv >>], o)

\* inner() that starts the fade to dim and goes on without awaiting it
InnerResumeNoWait(m, fnok, o) ==
    LET d0 == IF m.inner.pc = "new"
              THEN NewSlide(BACKLIGHT_DIM, DEFAULT_DELAY, DEFAULT_STEP)
              ELSE m.down
        r == SlideResume(d0, "down", m.bl, m.blog)
        m1 == [m EXCEPT !.down = r.g, !.bl = r.bl, !.blog = r.log]
    IN  EnterTry(m1, fnok, o)

\* inner() resumed at its start or in await backlight_slide(BACKLIGHT_DIM)
InnerResume(m, fnok, o) ==
    LET d0 == IF m.inner.pc = "new"
              THEN NewSlide(BACKLIGHT_DIM, DEFAULT_DELAY, DEFAULT_STEP)
              ELSE m.down
        r == SlideResume(d0, "down", m.bl, m.blog)
        m1 == [m EXCEPT !.down = r.g, !.bl = r.bl, !.blog = r.log]
    IN  IF r.g.pc = "sleep"
        THEN [m1 EXCEPT !.inner.pc = "fade"]
        ELSE EnterTry(m1, fnok, o)

\* inner() is closed: GeneratorExit is thrown where it is suspended.  The
\* await at line 122 is outside the try; the await at line 129 is inside it
CloseInner(m) ==
    IF m.inner.pc = "new"
    THEN [m EXCEPT !.inner.pc = "closed", !.inner.exit = "cancel_new"]
    ELSE IF m.inner.pc = "fade"
    THEN [m EXCEPT !.inner.pc = "closed", !.inner.exit = "cancel_fade",
                   !.down.pc = "closed"]
    ELSE IF m.inner.pc = "layout"
    THEN Finally([m EXCEPT !.inner.pc = "closed", !.inner.exit = "cancel_layout",
                           !.wl.pc = "closed"])
    ELSE m

(***************************************************************************)
(* loop.spawn(children): the first child that ends closes the others and   *)
(* resumes the parent with what it ended with.                             *)
(***************************************************************************)
InnerResult(m) ==
    IF m.inner.pc = "returned" THEN Returned(m.inner.result.v) ELSE m.inner.err

CloseInput(m) ==
    IF m.inp.pc \in {"new", "waiting"} THEN [m EXCEPT !.inp.pc = "closed"] ELSE m

SpawnFinish(m, child, res) ==
    IF m.lay.pc = "joined" /\ child \in m.lay.kids
    THEN LET m1 == IF child = "input"
                   THEN (IF "render" \in m.lay.kids THEN CloseInner(m) ELSE m)
                   ELSE (IF "input" \in m.lay.kids THEN CloseInput(m) ELSE m)
         IN  [m1 EXCEPT !.lay.pc = "ready", !.lay.got = res]
    ELSE m

\* the scheduler's finalizer, run when a step ends a task
AfterInner(m) ==
    IF m.inner.pc \in {"returned", "raised"}
    THEN SpawnFinish(m, "render", InnerResult(m))
    ELSE m

(***************************************************************************)
(* Scheduler steps of the decorated coroutine and of its fade-up task      *)
(***************************************************************************)
\* how many times the wrapped layout has been resumed
LayoutSteps(tr) ==
    Len(SelectSeq(tr, LAMBDA ev :
           ev.k = "step" \/ (ev.k = "call" /\ ev.h = "on_render")))

\* the scheduler resumes inner() at its start or when the fade's sleep is over
InnerRun ==
    /\ inner.pc \in {"new", "fade"}
    /\ \E fnok \in FnOk(inner.kind), o \in WrappedOutcomes(inner.kind) :
          Set(AfterInner(InnerResume(Cur, fnok, o)))

\* the scheduler resumes inner() inside await layout
InnerLayoutWake ==
    /\ inner.pc = "layout"
    /\ LayoutSteps(trace) < MaxRender
    /\ \E o \in WrappedOutcomes(inner.kind) :
          Set(AfterInner(ResumeLayout(Cur, o)))

\* the scheduler resumes the fade-up slide
UpRun ==
    /\ Runnable(up)
    /\ LET r == SlideResume(up, "up", backlight, blog) IN
          /\ up' = r.g
          /\ backlight' = r.bl
          /\ blog' = r.log
    /\ UNCHANGED << call, clk, bl0, trace, sl, alrt, wid, repaint, inner, down, wl, lay, inp >>

\* the caller closes the awaitable
InnerCancel ==
    /\ inner.pc \in {"new", "fade", "layout"}
    /\ Set(CloseInner(Cur))

DecoLevels == {BACKLIGHT_DIM, 45, BACKLIGHT_NORMAL}

InitDeco ==
    /\ backlight \in DecoLevels
    /\ bl0 = backlight
    /\ blog = << >>
    /\ trace = << >>
    /\ inner = [NoInner EXCEPT !.pc = "new", !.kind = "generic"]
    /\ down = NoGen /\ up = NoGen /\ wl = NoTask
    /\ lay = NoLayout /\ inp = NoTask
    /\ call = NoTask /\ clk = NoTask
    /\ sl = NoGen /\ alrt = NoAlert /\ wid = NoWidget /\ repaint = "unset"

NextDeco == InnerRun \/ InnerLayoutWake \/ UpRun \/ InnerCancel

SpecDeco == InitDeco /\ [][NextDeco]_vars

(***************************************************************************)
(* Layout: __iter__ spawns handle_rendering (wrapped by `layout`) and      *)
(* handle_input, and returns the value of the Result one of them raises.   *)
(***************************************************************************)
\* __iter__ that starts the render task on its own and joins only the input
LayoutIterDetached(m) ==
    [m EXCEPT !.lay.pc = "joined", !.lay.kids = {"input"},
              !.inner = [NoInner EXCEPT !.pc = "new", !.kind = "render"],
              !.inp.pc = "new"]

\* await loop.spawn(self.handle_rendering(), self.handle_input())
LayoutIter(m) ==
    [m EXCEPT !.lay.pc = "joined", !.lay.kids = {"render", "input"},
              !.inner = [NoInner EXCEPT !.pc = "new", !.kind = "render"],
              !.inp.pc = "new"]

\* except Result as result: return None
LayoutCatchNoValue(m) ==
    IF m.lay.got.t \in {"result", "return"}
    THEN [m EXCEPT !.lay.pc = "done", !.lay.value = None,
                   !.tr = @ \o << ResolveEv(None) >>]
    ELSE [m EXCEPT !.lay.pc = "raised"]

\* except Exception: return None
LayoutCatchAnything(m) ==
    IF m.lay.got.t = "result"
    THEN [m EXCEPT !.lay.pc = "done", !.lay.value = Val(m.lay.got.v),
                   !.tr = @ \o << ResolveEv(Val(m.lay.got.v)) >>]
    ELSE [m EXCEPT !.lay.pc = "done", !.lay.value = None]

\* the spawn ends: except Result as result: return result.value; a plain
\* return of spawn falls off the end of __iter__; anything else propagates
LayoutCatch(m) ==
    IF m.lay.got.t = "result"
    THEN [m EXCEPT !.lay.pc = "done", !.lay.value = Val(m.lay.got.v),
                   !.tr = @ \o << ResolveEv(Val(m.lay.got.v)) >>]
    ELSE IF m.lay.got.t = "return"
    THEN [m EXCEPT !.lay.pc = "done", !.lay.value = None,
                   !.tr = @ \o << ResolveEv(None) >>]
    ELSE [m EXCEPT !.lay.pc = "raised"]

\* handle_input that reacts to TOUCH_START and TOUCH_END only
HandleInputSkipMove(m, e, x, y, out) ==
    LET d == Dispatch(e, x, y)
        log == IF e = TOUCH_MOVE THEN << >> ELSE DispatchLog(e, x, y, out, m.rp)
        oc == IF e = TOUCH_MOVE THEN Ok ELSE DispatchOutcome(e, x, y, out)
        m1 == [m EXCEPT !.tr = @ \o << DeliverEv(e, x, y) >> \o log,
                        !.rp = RepaintAfter(d, @)]
    IN  IF oc = Ok
        THEN [m1 EXCEPT !.inp.pc = "waiting"]
        ELSE SpawnFinish([m1 EXCEPT !.inp.pc = "raised"], "input", oc)

\* event, x, y = yield touch; self.dispatch(event, x, y); and wait again
HandleInput(m, e, x, y, out) ==
    LET d == Dispatch(e, x, y)
        oc == DispatchOutcome(e, x, y, out)
        m1 == [m EXCEPT !.tr = @ \o << DeliverEv(e, x, y) >>
                                 \o DispatchLog(e, x, y, out, m.rp),
                        !.rp = RepaintAfter(d, @)]
    IN  IF oc = Ok
        THEN [m1 EXCEPT !.inp.pc = "waiting"]
        ELSE SpawnFinish([m1 EXCEPT !.inp.pc = "raised"], "input", oc)

\* the events the touch interface delivers
TouchEvents == TouchKinds

LayoutLevels == {BACKLIGHT_DIM, 45}

Init ==
    /\ backlight \in LayoutLevels
    /\ bl0 = backlight
    /\ blog = << >>
    /\ trace = << >>
    /\ repaint = "unset"
    /\ lay = [NoLayout EXCEPT !.pc = "new"]
    /\ inner = NoInner /\ down = NoGen /\ up = NoGen /\ wl = NoTask
    /\ inp = NoTask
    /\ call = NoTask /\ clk = NoTask
    /\ sl = NoGen /\ alrt = NoAlert /\ wid = NoWidget

\* the Layout is awaited: its first step, up to the spawn
LayoutStart ==
    /\ lay.pc = "new"
    /\ Set(LayoutIter(Cur))

\* the first step of handle_input, up to its first yield touch
InputStart ==
    /\ inp.pc = "new"
    /\ inp' = [inp EXCEPT !.pc = "waiting"]
    /\ UNCHANGED << call, clk, backlight, bl0, blog, trace, sl, alrt, wid, repaint,
                    inner, down, up, wl, lay >>

\* the scheduler delivers a touch event to the waiting input task
Touch ==
    /\ inp.pc = "waiting"
    /\ Count(trace, "deliver") < MaxTouch
    /\ \E e \in TouchEvents, pos \in Positions, out \in Outcomes :
          Set(HandleInput(Cur, e, pos[1], pos[2], out))

\* the scheduler resumes __iter__ with what the spawn ended with
LayoutResume ==
    /\ lay.pc = "ready"
    /\ Set(LayoutCatch(Cur))

Next ==
    \/ LayoutStart
    \/ InnerRun
    \/ InnerLayoutWake
    \/ UpRun
    \/ InputStart
    \/ Touch
    \/ LayoutResume

Spec == Init /\ [][Next]_vars

(***************************************************************************)
(* Claims about the `layout` decorator (SpecDeco)                          *)
(***************************************************************************)
\* the index of the first entry of a kind, 0 when there is none
First(tr, kind) ==
    IF \E i \in 1..Len(tr) : tr[i].k = kind
    THEN CHOOSE i \in 1..Len(tr) :
            tr[i].k = kind /\ \A j \in 1..(i - 1) : tr[j].k # kind
    ELSE 0

C4_Cleanup ==
    /\ inner.exit \in {"return", "raise", "cancel_layout"} =>
          /\ Count(trace, "close_slide") = 1
          /\ Count(trace, "onlayoutclose") = 1
          /\ up.pc \in {"closed", "done"}
          /\ ~Runnable(up)
    /\ inner.exit = "cancel_fade" =>
          /\ up.pc = "none"
          /\ Count(trace, "onlayoutclose") = 0
    /\ inner.exit = "none" => Count(trace, "onlayoutclose") = 0

C5_DecoratorOrder ==
    LET iSched == First(trace, "schedule")
        iClear == First(trace, "clear")
        iStep == First(trace, "step")
        n == Len(trace)
    IN  /\ (up.pc # "none" \/ wl.pc # "none" \/ iSched > 0 \/ iClear > 0) =>
              down.pc = "done"
        /\ Count(trace, "schedule") <= 1 /\ Count(trace, "clear") <= 1
        /\ up.q => iSched > 0
        /\ iStep > 0 => /\ 0 < iSched /\ iSched < iStep
                        /\ 0 < iClear /\ iClear < iStep
        /\ Len(Writes(blog, "up")) > 0 => iClear > 0
        /\ \A i, j \in 1..Len(blog) :
              blog[i].w = "down" /\ blog[j].w = "up" => i < j
        /\ inner.pc = "layout" => iStep > 0
        /\ inner.pc = "returned" =>
              \E k \in 1..n :
                 /\ trace[k].k = "step" /\ trace[k].out.t = "return"
                 /\ inner.result = Val(trace[k].out.v)
                 /\ \A j \in (k + 1)..n : trace[j].k # "step"

C5_Witness ==
    /\ inner.pc = "returned"
    /\ inner.result = Val(42)
    /\ LayoutSteps(trace) = 2
    /\ Len(Writes(blog, "down")) = 2
    /\ Len(Writes(blog, "up")) = 0

(***************************************************************************)
(* Claims about Layout (Spec)                                              *)
(***************************************************************************)
IsRender(ev) == ev.k = "call" /\ ev.h = "on_render"
Raising(tr) == SelectSeq(tr, LAMBDA ev : ev.k = "call" /\ ev.out.t # "ok")

\* C1: once a handler has raised Result and the Layout has resolved, the
\* render task is cancelled: it is no longer scheduled when the Layout is
\* about to return or has returned, and on_render is called at no later step.
C1_RenderCancelled ==
    /\ lay.pc \in {"ready", "done"} =>
          /\ inner.pc \in {"closed", "raised"}
          /\ wl.pc \in {"none", "closed", "raised"}
    /\ \A i, j \in 1..Len(trace) :
          /\ i < j
          /\ (trace[i].k = "resolve"
                \/ (trace[i].k = "call" /\ trace[i].out.t = "result"))
          => ~IsRender(trace[j])

C1_Witness ==
    /\ lay.pc = "done"
    /\ lay.value = Val(42)
    /\ inner.exit = "cancel_layout"
    /\ \E i \in 1..Len(trace) : IsRender(trace[i])
    /\ \E i \in 1..Len(trace) :
          /\ trace[i].k = "call" /\ trace[i].h = "on_touch_end"
          /\ trace[i].out = Raised(42)

\* C2: the Layout resolves, once, to the value of the first Result a handler
\* raises, in whichever task the handler ran (on_render in the render task, a
\* touch handler in the input task), and the other task is cancelled.
C2_ResolvesToResult ==
    LET R == Raising(trace) IN
    /\ Len(R) <= 1
    /\ Count(trace, "resolve") <= 1
    /\ lay.pc = "done" <=> Count(trace, "resolve") = 1
    /\ lay.pc = "done" =>
          /\ Len(R) = 1
          /\ R[1].out.t = "result"
          /\ lay.value = Val(R[1].out.v)
          /\ trace[Len(trace)] = ResolveEv(lay.value)
          /\ IF R[1].h = "on_render"
             THEN inner.pc = "raised" /\ inp.pc = "closed"
             ELSE inp.pc = "raised" /\ inner.pc = "closed"
    /\ (Len(R) = 1 /\ R[1].out.t = "result") => lay.pc \in {"ready", "done"}

C2_Witness ==
    /\ lay.pc = "done"
    /\ lay.value = Val(7)
    /\ Raising(trace)[1].h = "on_render"
    /\ Count(trace, "deliver") = 2
    /\ inp.pc = "closed"

\* C7: the input task hands every delivered touch event to Control.dispatch
\* exactly once, at once and in delivery order, however render ticks and fade
\* steps interleave with the deliveries.
C7_InputInOrder ==
    LET D == SelectSeq(trace, LAMBDA ev : ev.k = "deliver")
        T == SelectSeq(trace, LAMBDA ev : ev.k = "dispatch" /\ ev.e # RENDER)
    IN  /\ Len(D) = Len(T)
        /\ \A k \in 1..Len(D) :
              /\ T[k].e = D[k].e
              /\ T[k].x = D[k].x
              /\ T[k].y = D[k].y
        /\ \A i \in 1..Len(trace) :
              trace[i].k = "deliver" =>
                 /\ i < Len(trace)
                 /\ trace[i + 1].k = "dispatch"
                 /\ trace[i + 1].e = trace[i].e

C7_Witness ==
    /\ Count(trace, "deliver") = 2
    /\ Len(Writes(blog, "up")) >= 1
    /\ \E i, j, k \in 1..Len(trace) :
          /\ i < j /\ j < k
          /\ trace[i].k = "deliver" /\ trace[i].e = TOUCH_MOVE
          /\ IsRender(trace[j])
          /\ trace[k].k = "deliver" /\ trace[k].e = TOUCH_END

(***************************************************************************)
(* backlight_slide_sync(val, delay, step): the blocking variant.  The call *)
(* runs its whole loop before it returns; it is made on a display of its   *)
(* own (call.bl) that starts at the level the generator's display has.     *)
(***************************************************************************)
NewSync(val, delay, step, bl) ==
    [pc |-> "new", f |-> "backlight_slide_sync", val |-> val, delay |-> delay,
     step |-> step, bl |-> bl, log |-> << >>]

RECURSIVE SyncLoopIncl(_, _, _, _, _, _)
SyncLoopIncl(i, val, stp, delay, bl, log) ==
    IF InRangeIncl(i, val, stp)
    THEN SyncLoopIncl(i + stp, val, stp, delay, i,
                      log \o << BlWrite("sync", i), Sleep("sync", delay) >>)
    ELSE [bl |-> bl, log |-> log]

\* for i in range(i, val, stp): display.backlight(i); utime.sleep_us(delay)
RECURSIVE SyncLoop(_, _, _, _, _, _)
SyncLoop(i, val, stp, delay, bl, log) ==
    IF InRange(i, val, stp)
    THEN SyncLoop(i + stp, val, stp, delay, i,
                  log \o << BlWrite("sync", i), Sleep("sync", delay) >>)
    ELSE [bl |-> bl, log |-> log]

\* the whole call, on a display at level bl
BacklightSlideSync(val, delay, step, bl) ==
    SyncLoop(bl, val, SlideSign(bl, val, step), delay, bl, << >>)

InitSync ==
    /\ InitSlide!1 /\ InitSlide!2 /\ InitSlide!3 /\ InitSlide!4 /\ InitSlide!5
    /\ alrt = NoAlert /\ wid = NoWidget /\ repaint = "unset"
    /\ inner = NoInner /\ down = NoGen /\ up = NoGen /\ wl = NoTask
    /\ lay = NoLayout /\ inp = NoTask /\ clk = NoTask
    /\ call = NewSync(sl.val, sl.delay, sl.step, backlight)

SyncCall ==
    /\ call.pc = "new"
    /\ LET r == BacklightSlideSync(call.val, call.delay, call.step, call.bl) IN
          call' = [call EXCEPT !.pc = "done", !.bl = r.bl, !.log = r.log]
    /\ UNCHANGED << backlight, bl0, blog, trace, sl, alrt, wid, repaint,
                    inner, down, up, wl, lay, inp, clk >>

NextSync == SlideRun \/ SyncCall

SpecSync == InitSync /\ [][NextSync]_vars

\* the levels written and the sleeps made, whoever made them
Levels(log) == [k \in 1..Len(log) |-> [k |-> log[k].k, v |-> log[k].v]]

\* C11: for every start level, target, delay and step, backlight_slide run to
\* completion and backlight_slide_sync write the same levels in the same order,
\* sleep the same number of times for `delay`, and leave the same final level.
C11_SyncEquivalent ==
    (sl.pc = "done" /\ call.pc = "done") =>
        /\ Levels(blog) = Levels(call.log)
        /\ Len(Sleeps(blog, "slide")) = Len(Sleeps(call.log, "sync"))
        /\ \A k \in 1..Len(call.log) :
              call.log[k].k = "sleep" => call.log[k].v = call.delay
        /\ backlight = call.bl

C11_Witness ==
    /\ sl.pc = "done" /\ call.pc = "done"
    /\ Len(Writes(call.log, "sync")) = 3
    /\ Len(Writes(blog, "slide")) = 3
    /\ call.bl # bl0
    /\ sl.val < bl0

(***************************************************************************)
(* alert, backlight_slide toward BACKLIGHT_DIM or BACKLIGHT_NORMAL and a   *)
(* `layout`-decorated coroutine sharing one display.  Each may be resumed  *)
(* whenever it is suspended and closed at any suspension point.  The steps *)
(* are those of the generators above; the logs are not kept, so that the   *)
(* state is the display and the positions of the tasks.                    *)
(***************************************************************************)
SharedLevels == {BACKLIGHT_DIM, 45, BACKLIGHT_MAX}
SlideTargets == {BACKLIGHT_DIM, BACKLIGHT_NORMAL}
MaxSharedCount == 1     \* alert(count) for count in 0..MaxSharedCount

Unlogged(m) == [m EXCEPT !.blog = << >>, !.tr = << >>]

InitShared ==
    /\ backlight \in SharedLevels
    /\ bl0 = backlight
    /\ blog = << >>
    /\ trace = << >>
    /\ \E c \in 0..MaxSharedCount : alrt = NewAlert(c)
    /\ \E v \in SlideTargets : sl = NewSlide(v, DEFAULT_DELAY, DEFAULT_STEP)
    /\ inner = [NoInner EXCEPT !.pc = "new", !.kind = "generic"]
    /\ down = NoGen /\ up = NoGen /\ wl = NoTask
    /\ lay = NoLayout /\ inp = NoTask
    /\ call = NoTask /\ clk = NoTask
    /\ wid = NoWidget /\ repaint = "unset"

SharedAlertRun ==
    /\ alrt.pc \in {"new", "sleep"}
    /\ LET r == AlertResume(alrt, backlight, << >>) IN
          /\ alrt' = r.a
          /\ backlight' = r.bl
    /\ UNCHANGED << call, clk, bl0, blog, trace, sl, wid, repaint, inner, down,
                    up, wl, lay, inp >>

SharedSlideRun ==
    /\ sl.pc \in {"new", "sleep"}
    /\ LET r == SlideResume(sl, "slide", backlight, << >>) IN
          /\ sl' = r.g
          /\ backlight' = r.bl
    /\ UNCHANGED << call, clk, bl0, blog, trace, alrt, wid, repaint, inner, down,
                    up, wl, lay, inp >>

\* loop.close(task) on the slide
SlideClose ==
    /\ sl.pc \in {"new", "sleep"}
    /\ sl' = CloseGen(sl)
    /\ UNCHANGED << call, clk, backlight, bl0, blog, trace, alrt, wid, repaint,
                    inner, down, up, wl, lay, inp >>

SharedInnerRun ==
    /\ inner.pc \in {"new", "fade"}
    /\ \E fnok \in FnOk(inner.kind), o \in WrappedOutcomes(inner.kind) :
          Set(Unlogged(AfterInner(InnerResume(Cur, fnok, o))))

SharedUpRun ==
    /\ Runnable(up)
    /\ LET r == SlideResume(up, "up", backlight, << >>) IN
          /\ up' = r.g
          /\ backlight' = r.bl
    /\ UNCHANGED << call, clk, bl0, blog, trace, sl, alrt, wid, repaint, inner,
                    down, wl, lay, inp >>

\* inner() resumed inside await layout; a step that suspends again changes
\* nothing here
SharedInnerLayoutWake ==
    /\ inner.pc = "layout"
    /\ \E o \in WrappedOutcomes(inner.kind) :
          Set(Unlogged(AfterInner(ResumeLayout(Cur, o))))

SharedInnerCancel ==
    /\ inner.pc \in {"new", "fade", "layout"}
    /\ Set(Unlogged(CloseInner(Cur)))

NextShared ==
    \/ SharedAlertRun
    \/ AlertClose
    \/ SharedSlideRun
    \/ SlideClose
    \/ SharedInnerRun
    \/ SharedInnerLayoutWake
    \/ SharedUpRun
    \/ SharedInnerCancel

SpecShared == InitShared /\ [][NextShared]_vars

\* C12: with BACKLIGHT_DIM <= BACKLIGHT_NORMAL <= BACKLIGHT_MAX and a start
\* level within [BACKLIGHT_DIM, BACKLIGHT_MAX], the backlight stays within
\* [BACKLIGHT_DIM, BACKLIGHT_MAX] in every state of every interleaving of
\* alert, backlight_slide toward DIM or NORMAL and `layout`-decorated runs,
\* cancellation at any suspension point included.
C12_BacklightInBounds ==
    (/\ BACKLIGHT_DIM <= BACKLIGHT_NORMAL
     /\ BACKLIGHT_NORMAL <= BACKLIGHT_MAX
     /\ BACKLIGHT_DIM <= bl0 /\ bl0 <= BACKLIGHT_MAX)
    => (BACKLIGHT_DIM <= backlight /\ backlight <= BACKLIGHT_MAX)

C12_Witness ==
    /\ bl0 = 45
    /\ alrt.pc = "sleep" /\ alrt.i = 1
    /\ sl.pc = "closed" /\ sl.stp # 0
    /\ inner.exit = "cancel_layout"
    /\ up.pc = "closed" /\ up.stp < 0
    /\ backlight \notin {BACKLIGHT_DIM, BACKLIGHT_NORMAL, BACKLIGHT_MAX, bl0}

(***************************************************************************)
(* Claims about errors in a running Layout (Spec)                          *)
(***************************************************************************)
\* the spawn of the Layout has ended with an error that is not a Result
EndedInError == lay.pc \in {"ready", "raised"} /\ lay.got.t = "error"

\* both tasks have ended: one raised, the other was closed or raised
TasksEnded ==
    /\ inner.pc \in {"raised", "closed"}
    /\ inp.pc \in {"raised", "closed"}
    /\ ~(inner.pc = "closed" /\ inp.pc = "closed")

RenderWindow == 3

RECURSIVE Renders(_)
Renders(tr) ==
    IF tr = << >> THEN 0
    ELSE LET ev == Head(tr) IN
         (IF ev.k = "renders" THEN ev.n
          ELSE IF ev.k = "dispatch" /\ ev.e = RENDER THEN 1
          ELSE 0) + Renders(Tail(tr))

Folded(m) ==
    [m EXCEPT !.blog = << >>,
              !.tr = << [k |-> "renders", n |-> Renders(m.tr) % RenderWindow] >>]

\* the timer wakes inner() at its start or in its initial fade
LiveInnerRun ==
    /\ inner.pc \in {"new", "fade"}
    /\ \E fnok \in FnOk(inner.kind), o \in WrappedOutcomes(inner.kind) :
          Set(Folded(AfterInner(InnerResume(Cur, fnok, o))))

\* the timer wakes handle_rendering from its sleep of 10 ms
LiveRenderTick ==
    /\ inner.pc = "layout"
    /\ \E o \in WrappedOutcomes(inner.kind) :
          Set(Folded(AfterInner(ResumeLayout(Cur, o))))

LiveTouch ==
    /\ inp.pc = "waiting"
    /\ \E e \in TouchEvents, pos \in Positions, out \in Outcomes :
          Set(Folded(HandleInput(Cur, e, pos[1], pos[2], out)))

LiveLayoutResume ==
    /\ lay.pc = "ready"
    /\ Set(Folded(LayoutCatch(Cur)))

NextLive ==
    \/ LayoutStart
    \/ LiveInnerRun
    \/ LiveRenderTick
    \/ SharedUpRun
    \/ InputStart
    \/ LiveTouch
    \/ LiveLayoutResume

\* the caller awaits the Layout and the scheduler wakes a sleeping task when
\* its deadline has passed; nothing obliges a touch to arrive
SpecLive ==
    /\ Init
    /\ [][NextLive]_vars
    /\ WF_vars(LayoutStart)
    /\ WF_vars(LiveInnerRun)
    /\ WF_vars(LiveRenderTick)

LayoutEnded == lay.pc \in {"ready", "done", "raised"}

\* C14: while the Layout has not ended, the render task keeps dispatching
\* RENDER on its tick whether or not a touch arrives: with fair timer wake-ups
\* RENDER is dispatched again and again unless the Layout ends, and a render
\* tick is enabled whenever the render task sleeps in its loop, also while the
\* input task waits for a touch.
C14_RenderKeepsTicking ==
    /\ [](inner.pc = "layout" /\ ~LayoutEnded => ENABLED <<LiveRenderTick>>_vars)
    /\ ([]<><<Renders(trace') # Renders(trace)>>_vars) \/ <>LayoutEnded

C14_Witness ==
    /\ lay.pc = "joined"
    /\ inner.pc = "layout"
    /\ inp.pc = "waiting"
    /\ trace = << [k |-> "renders", n |-> 0] >>
    /\ up.pc = "done"
    /\ bl0 = 45

(***************************************************************************)
(* The `layout_without_fade` decorator: inner() calls fn, notifies         *)
(* workflow.onlayoutstart and awaits the layout, all inside try/finally.   *)
(***************************************************************************)
NotifyStartEv == [k |-> "onlayoutstart"]

\* a finally block that notifies only when `layout` is bound
NoFadeFinallyIfBound(m) ==
    IF m.wl.pc = "none" THEN m ELSE [m EXCEPT !.tr = @ \o << NotifyCloseEv >>]

\* finally: workflow.onlayoutclose(layout), which raises when fn itself failed
\* and `layout` was never bound
NoFadeFinally(m) ==
    IF m.wl.pc = "none"
    THEN [m EXCEPT !.inner.pc = "raised", !.inner.err = NameErr,
                   !.inner.result = None]
    ELSE [m EXCEPT !.tr = @ \o << NotifyCloseEv >>]

\* return await layout: the wrapped layout is resumed and its step ends with o
NoFadeResumeLayout(m, o) ==
    LET m1 == [m EXCEPT !.tr = @ \o << StepEv(o) >>] IN
    IF o.t = "ok"
    THEN [m1 EXCEPT !.inner.pc = "nf_layout", !.wl.pc = "susp"]
    ELSE IF o.t = "return"
    THEN NoFadeFinally([m1 EXCEPT !.wl.pc = "returned", !.inner.pc = "returned",
                                  !.inner.result = Val(o.v),
                                  !.inner.exit = "return"])
    ELSE NoFadeFinally([m1 EXCEPT !.wl.pc = "raised", !.inner.pc = "raised",
                                  !.inner.err = o, !.inner.exit = "raise"])

\* a body that notifies onlayoutstart only after the layout's first step
NoFadeStartNotifyLate(m, fnok, o) ==
    IF ~fnok
    THEN NoFadeFinally([m EXCEPT !.inner.pc = "raised", !.inner.err = Failed,
                                 !.inner.exit = "fn_error"])
    ELSE NoFadeResumeLayout(
            [m EXCEPT !.wl.pc = "new",
                      !.tr = @ \o << FnEv, StepEv(Ok), NotifyStartEv >>], o)

\* lines 139-142: layout = fn(...); workflow.onlayoutstart(layout);
\* return await layout
NoFadeStart(m, fnok, o) ==
    IF ~fnok
    THEN NoFadeFinally([m EXCEPT !.inner.pc = "raised", !.inner.err = Failed,
                                 !.inner.exit = "fn_error"])
    ELSE NoFadeResumeLayout(
            [m EXCEPT !.wl.pc = "new", !.tr = @ \o << FnEv, NotifyStartEv >>], o)

\* inner() is closed: before its first step nothing runs; at await layout the
\* GeneratorExit passes through the finally
NoFadeClose(m) ==
    IF m.inner.pc = "nf_new"
    THEN [m EXCEPT !.inner.pc = "closed", !.inner.exit = "cancel_new"]
    ELSE IF m.inner.pc = "nf_layout"
    THEN NoFadeFinally([m EXCEPT !.inner.pc = "closed",
                                 !.inner.exit = "cancel_layout",
                                 !.wl.pc = "closed"])
    ELSE m

NoFadeRun ==
    /\ inner.pc = "nf_new"
    /\ \E fnok \in FnOk(inner.kind), o \in WrappedOutcomes(inner.kind) :
          Set(NoFadeStart(Cur, fnok, o))

NoFadeLayoutWake ==
    /\ inner.pc = "nf_layout"
    /\ LayoutSteps(trace) < MaxRender
    /\ \E o \in WrappedOutcomes(inner.kind) :
          Set(NoFadeResumeLayout(Cur, o))

NoFadeCancel ==
    /\ inner.pc \in {"nf_new", "nf_layout"}
    /\ Set(NoFadeClose(Cur))

InitNoFade ==
    /\ backlight \in DecoLevels
    /\ bl0 = backlight
    /\ blog = << >>
    /\ trace = << >>
    /\ inner = [NoInner EXCEPT !.pc = "nf_new", !.kind = "nofade"]
    /\ down = NoGen /\ up = NoGen /\ wl = NoTask
    /\ lay = NoLayout /\ inp = NoTask
    /\ call = NoTask /\ clk = NoTask
    /\ sl = NoGen /\ alrt = NoAlert /\ wid = NoWidget /\ repaint = "unset"

NextNoFade == NoFadeRun \/ NoFadeLayoutWake \/ NoFadeCancel

\* a coroutine made by either decorator
InitWrap == InitDeco \/ InitNoFade

NextWrap == NextDeco \/ NextNoFade

SpecWrap == InitWrap /\ [][NextWrap]_vars

\* the index of the last entry of a kind, 0 when there is none
Last(tr, kind) ==
    IF \E i \in 1..Len(tr) : tr[i].k = kind
    THEN CHOOSE i \in 1..Len(tr) :
            tr[i].k = kind /\ \A j \in (i + 1)..Len(tr) : tr[j].k # kind
    ELSE 0

\* C15: the awaitable of layout_without_fade never writes the backlight, never
\* clears the display and never schedules or cancels a fade task; it notifies
\* onlayoutstart once before the wrapped layout's first step and
\* onlayoutclose once after the wrapped layout ends, whether it returns,
\* raises or is cancelled, and it returns the wrapped layout's value.
C15_NoFadeFrame ==
    inner.kind = "nofade" =>
        /\ backlight = bl0 /\ blog = << >>
        /\ down = NoGen /\ up = NoGen
        /\ Count(trace, "clear") = 0
        /\ Count(trace, "schedule") = 0
        /\ Count(trace, "close_slide") = 0
        /\ Count(trace, "step") > 0 =>
              /\ Count(trace, "onlayoutstart") = 1
              /\ First(trace, "fn") < First(trace, "onlayoutstart")
              /\ First(trace, "onlayoutstart") < First(trace, "step")
        /\ inner.pc = "nf_layout" => Count(trace, "onlayoutclose") = 0
        /\ inner.exit \in {"return", "raise", "cancel_layout"} =>
              /\ Count(trace, "onlayoutstart") = 1
              /\ Count(trace, "onlayoutclose") = 1
              /\ trace[Len(trace)] = NotifyCloseEv
              /\ Last(trace, "step") = Len(trace) - 1
        /\ inner.exit = "return" =>
              /\ inner.pc = "returned"
              /\ trace[Last(trace, "step")].out = Returned(inner.result.v)
        /\ inner.exit = "raise" =>
              /\ inner.pc = "raised"
              /\ trace[Last(trace, "step")].out = inner.err

C15_Witness ==
    /\ inner.kind = "nofade"
    /\ inner.pc = "returned"
    /\ inner.result = Val(7)
    /\ Count(trace, "step") = 2
    /\ Count(trace, "onlayoutclose") = 1
    /\ backlight = 45

\* C20: when fn itself fails as it is called, the finally block has no layout
\* to hand over: workflow.onlayoutclose is not notified and the error that
\* reaches the caller is the failed lookup of `layout`, not fn's error; in
\* `layout` the fade-up task, created but never scheduled, is closed first.
C20_FnFailure ==
    inner.exit = "fn_error" =>
        /\ inner.pc = "raised"
        /\ inner.err = NameErr
        /\ inner.err # Failed
        /\ wl.pc = "none"
        /\ Count(trace, "fn") = 0
        /\ Count(trace, "onlayoutstart") = 0
        /\ Count(trace, "onlayoutclose") = 0
        /\ inner.kind = "generic" =>
              /\ trace = << CloseSlideEv >>
              /\ up.pc = "closed" /\ ~up.q
              /\ down.pc = "done"
        /\ inner.kind = "nofade" =>
              /\ trace = << >>
              /\ up = NoGen

C20_Witness ==
    /\ inner.exit = "fn_error"
    /\ inner.kind = "generic"
    /\ inner.err = NameErr
    /\ up.pc = "closed"
    /\ bl0 = 45 /\ backlight = 25

(***************************************************************************)
(* rotate(pos): a pure function of the position and display.orientation() *)
(***************************************************************************)
\* trezorui.Display.WIDTH and HEIGHT, imported by the module
WIDTH == 240
HEIGHT == 240

MaxCoord == 3      \* rotate is applied to positions in (0..MaxCoord)^2

KnownOrientations == {0, 90, 180, 270}
Orientations == KnownOrientations \cup {-90, 1, 45, 360}

\* the chain of ifs; a function body that ends without a return gives None
Rotate(pos, r) ==
    IF r = 0 THEN Val(pos)
    ELSE LET x == pos[1]
             y == pos[2]
         IN  IF r = 90 THEN Val(<< y, WIDTH - x >>)
             ELSE IF r = 180 THEN Val(<< WIDTH - x, HEIGHT - y >>)
             ELSE IF r = 270 THEN Val(<< HEIGHT - y, x >>)
             ELSE None

IdleTasks ==
    /\ sl = NoGen /\ alrt = NoAlert /\ wid = NoWidget /\ repaint = "unset"
    /\ inner = NoInner /\ down = NoGen /\ up = NoGen /\ wl = NoTask
    /\ lay = NoLayout /\ inp = NoTask
    /\ backlight = BACKLIGHT_NORMAL /\ bl0 = backlight
    /\ blog = << >> /\ trace = << >>

InitRotate ==
    /\ \E x \in 0..MaxCoord, y \in 0..MaxCoord, r \in Orientations :
          call = [pc |-> "new", f |-> "rotate", pos |-> << x, y >>, r |-> r,
                  out |-> None]
    /\ clk = NoTask
    /\ IdleTasks

RotateCall ==
    /\ call.pc = "new" /\ call.f = "rotate"
    /\ call' = [call EXCEPT !.pc = "done", !.out = Rotate(call.pos, call.r)]
    /\ UNCHANGED << backlight, bl0, blog, trace, sl, alrt, wid, repaint,
                    inner, down, up, wl, lay, inp, clk >>

NextRotate == RotateCall

SpecRotate == InitRotate /\ [][NextRotate]_vars

\* C16: rotate(pos) fails with InvalidOrientation whenever
\* display.orientation() is none of 0, 90, 180, 270; it never returns an
\* absent value.
C16_RotateRejectsUnknown ==
    (call.pc = "done" /\ call.f = "rotate") =>
        /\ call.out # None
        /\ call.r \notin KnownOrientations =>
              call.out.t = "error"

(***************************************************************************)
(* grid(i, ...): the rectangle (x, y, width, height) of cell i.  The       *)
(* default view is the display without a margin of VIEWX and VIEWY; the    *)
(* cells of one grid are computed one call after the other.                *)
(***************************************************************************)
VIEWX == 6
VIEWY == 9
N_X == 3
N_Y == 5

MaxExtra == 3      \* displays up to MaxExtra wider and higher than one grid

\* a grid whose row is computed from the column index
GridRowByColumn(i, n_x, n_y, start_x, start_y, end_x, end_y, cells_x, cells_y, spacing) ==
    LET w == (end_x - start_x) \div n_x
        h == (end_y - start_y) \div n_y
        x == (i % n_x) * w
        y == (i % n_x) * h
    IN  << x + start_x, y + start_y, (w - spacing) * cells_x,
           (h - spacing) * cells_y >>

\* lines 173-177; // is floor division
Grid(i, n_x, n_y, start_x, start_y, end_x, end_y, cells_x, cells_y, spacing) ==
    LET w == (end_x - start_x) \div n_x
        h == (end_y - start_y) \div n_y
        x == (i % n_x) * w
        y == (i \div n_x) * h
    IN  << x + start_x, y + start_y, (w - spacing) * cells_x,
           (h - spacing) * cells_y >>

\* grid(i) with only the index given, on a display of the given size
GridDefault(i, width, height) ==
    Grid(i, N_X, N_Y, VIEWX, VIEWY, width - VIEWX, height - VIEWY, 1, 1, 0)

\* the smallest displays whose view holds a cell of one pixel, and the device's
Widths == {WIDTH} \cup ((2 * VIEWX + N_X)..(2 * VIEWX + 2 * N_X + MaxExtra))
Heights == {HEIGHT} \cup ((2 * VIEWY + N_Y)..(2 * VIEWY + 2 * N_Y + MaxExtra))

InitGrid ==
    /\ \E width \in Widths, height \in Heights :
          call = [pc |-> "new", f |-> "grid", width |-> width,
                  height |-> height, cells |-> << >>]
    /\ clk = NoTask
    /\ IdleTasks

\* the next cell: grid(i) for i = 0, 1, ..., N_X * N_Y - 1
GridCall ==
    /\ call.pc = "new" /\ call.f = "grid"
    /\ LET i == Len(call.cells)
           cells == Append(call.cells, GridDefault(i, call.width, call.height))
       IN  call' = [call EXCEPT !.cells = cells,
                                !.pc = IF Len(cells) = N_X * N_Y THEN "done"
                                       ELSE "new"]
    /\ UNCHANGED << backlight, bl0, blog, trace, sl, alrt, wid, repaint,
                    inner, down, up, wl, lay, inp, clk >>

NextGrid == GridCall

SpecGrid == InitGrid /\ [][NextGrid]_vars

\* a rectangle (x, y, w, h) holds the pixels [x, x + w) x [y, y + h)
InRect(px, py, r) ==
    /\ r[1] <= px /\ px < r[1] + r[3]
    /\ r[2] <= py /\ py < r[2] + r[4]

Overlap(r, s) ==
    /\ r[1] < s[1] + s[3] /\ s[1] < r[1] + r[3]
    /\ r[2] < s[2] + s[4] /\ s[2] < r[2] + r[4]

PairwiseDisjoint(cells) ==
    \A a, b \in 1..Len(cells) : a # b => ~Overlap(cells[a], cells[b])

\* the union of the cells is exactly the rectangle [x0, x1) x [y0, y1)
UnionIs(cells, x0, y0, x1, y1) ==
    /\ \A a \in 1..Len(cells) :
          /\ cells[a][3] > 0 /\ cells[a][4] > 0
          /\ x0 <= cells[a][1] /\ cells[a][1] + cells[a][3] <= x1
          /\ y0 <= cells[a][2] /\ cells[a][2] + cells[a][4] <= y1
    /\ \A px \in x0..(x1 - 1), py \in y0..(y1 - 1) :
          \E a \in 1..Len(cells) : InRect(px, py, cells[a])

GridDone == call.pc = "done" /\ call.f = "grid"

InputStartInOrder ==
    /\ inner.pc # "new"
    /\ InputStart

NextOrdered ==
    \/ LayoutStart
    \/ InnerRun
    \/ InnerLayoutWake
    \/ UpRun
    \/ InputStartInOrder
    \/ Touch
    \/ LayoutResume

SpecOrdered == Init /\ [][NextOrdered]_vars

IsRenderDispatch(ev) == ev.k = "dispatch" /\ ev.e = RENDER

\* the index of the first dispatch of RENDER, Len(tr) + 1 when there is none
FirstRender(tr) ==
    IF \E i \in 1..Len(tr) : IsRenderDispatch(tr[i])
    THEN CHOOSE i \in 1..Len(tr) :
            IsRenderDispatch(tr[i]) /\ \A j \in 1..(i - 1) : ~IsRenderDispatch(tr[j])
    ELSE Len(tr) + 1

MaxClickTouch == 4     \* touch events delivered to one click()

NewClick == [pc |-> "new", result |-> None]

\* a click that also ends on a TOUCH_END seen in its first loop
ClickResumeEndOnly(c, e, x, y) ==
    IF e = TOUCH_END THEN [c EXCEPT !.pc = "done", !.result = Val(<< x, y >>)]
    ELSE IF c.pc = "wait_start" /\ e = TOUCH_START
    THEN [c EXCEPT !.pc = "wait_end"]
    ELSE c

\* ev, *pos = yield touch, in the first loop or in the second
ClickResume(c, e, x, y) ==
    IF c.pc = "wait_start"
    THEN (IF e = TOUCH_START THEN [c EXCEPT !.pc = "wait_end"] ELSE c)
    ELSE IF c.pc = "wait_end"
    THEN (IF e = TOUCH_END
          THEN [c EXCEPT !.pc = "done", !.result = Val(<< x, y >>)]
          ELSE c)
    ELSE c

InitClick ==
    /\ clk = NewClick
    /\ call = NoTask
    /\ IdleTasks

\* the first step, up to the first yield touch
ClickStart ==
    /\ clk.pc = "new"
    /\ clk' = [clk EXCEPT !.pc = "wait_start"]
    /\ UNCHANGED << backlight, bl0, blog, trace, sl, alrt, wid, repaint,
                    inner, down, up, wl, lay, inp, call >>

\* the scheduler delivers a touch event to the waiting click
ClickTouch ==
    /\ clk.pc \in {"wait_start", "wait_end"}
    /\ Count(trace, "deliver") < MaxClickTouch
    /\ \E e \in TouchEvents, pos \in Positions :
          /\ clk' = ClickResume(clk, e, pos[1], pos[2])
          /\ trace' = Append(trace, DeliverEv(e, pos[1], pos[2]))
    /\ UNCHANGED << backlight, bl0, blog, sl, alrt, wid, repaint,
                    inner, down, up, wl, lay, inp, call >>

NextClick == ClickStart \/ ClickTouch

SpecClick == InitClick /\ [][NextClick]_vars

\* C19: click() returns only after it has consumed a TOUCH_START followed
\* later by a TOUCH_END, and returns the position of that TOUCH_END; the
\* events before the first TOUCH_START and between it and the TOUCH_END are
\* consumed and ignored; it never returns on a sequence with no TOUCH_START
\* followed by a TOUCH_END.
C19_ClickStartThenEnd ==
    LET n == Len(trace)
        StartThenEnd == \E i, j \in 1..n :
                           /\ i < j
                           /\ trace[i].e = TOUCH_START
                           /\ trace[j].e = TOUCH_END
    IN  /\ clk.pc = "done" <=> StartThenEnd
        /\ clk.pc # "done" => clk.result = None
        /\ clk.pc = "wait_end" <=>
              (~StartThenEnd /\ \E i \in 1..n : trace[i].e = TOUCH_START)
        /\ clk.pc = "done" =>
              /\ trace[n].e = TOUCH_END
              /\ clk.result = Val(<< trace[n].x, trace[n].y >>)
              /\ \E s \in 1..(n - 1) :
                    /\ trace[s].e = TOUCH_START
                    /\ \A k \in 1..(s - 1) : trace[k].e # TOUCH_START
                    /\ \A k \in (s + 1)..(n - 1) : trace[k].e # TOUCH_END

C19_Witness ==
    /\ clk.pc = "done"
    /\ Len(trace) = 4
    /\ trace[1].e = TOUCH_END
    /\ trace[2].e = TOUCH_START /\ trace[2].x = 1
    /\ trace[3].e = TOUCH_MOVE
    /\ trace[4].e = TOUCH_END /\ trace[4].x = 2
    /\ clk.result = Val(<< 2, 1 >>)

====
